---------------------------- MODULE Spec2Model ----------------------------
(***************************************************************************)
(* onClickOutside (packages/core/onClickOutside/index.ts): one detector    *)
(* instance installed on a window, the events the window dispatches to it, *)
(* the deferred blur check and the returned stop function (Spec); and the  *)
(* calls of onClickOutside made in one process, with a second instance on  *)
(* the same window (SpecProcess).                                          *)
(***************************************************************************)
EXTENDS Integers, Sequences, FiniteSets, TLC

VARIABLES
    ignore,            \* options.ignore: sequence of selector / handle entries
    ignoreDragging,    \* options.ignoreDragging: false, true or {distance}
    detectIframe,      \* options.detectIframe
    targetEl,          \* what the target reference resolves to right now
    activeElement,     \* window.document.activeElement
    shouldListen,      \* let shouldListen
    stopDragListener,  \* let stopDragListener: 0 (undefined) or the subscription it removes
    listeners,         \* click / pointerdown / blur subscriptions installed on window
    moveSubs,          \* pointermove subscriptions installed on window, in registration order
    timers,            \* deferred blur checks scheduled by setTimeout(..., 0) and not yet run
    handlerCalls,      \* the events handler was invoked with during the last step
    stopCalled,        \* the returned stop function has been called
    last,              \* the event processed by the last step
    gesture,           \* the most recent pointerdown since the last click, and the moves after it
    hasWindow,         \* options.window / defaultWindow is present
    isIOS,             \* isIOS of @vueuse/shared
    iOSWorkaround,     \* let _iOSWorkaround (module level)
    noopClicks,        \* how many times the noop click listeners of the workaround were added
    installed,         \* onClickOutside has been called for this instance
    other,             \* the closure of a second onClickOutside call on the same window
    otherListeners     \* click / pointerdown subscriptions of the second instance

vars == <<ignore, ignoreDragging, detectIframe, targetEl, activeElement, shouldListen,
          stopDragListener, listeners, moveSubs, timers, handlerCalls, stopCalled,
          last, gesture, hasWindow, isIOS, iOSWorkaround, noopClicks, installed,
          other, otherListeners>>

\* what only a call of onClickOutside changes
process == <<hasWindow, isIOS, iOSWorkaround, noopClicks, installed>>

(* ------------------------------ bounds -------------------------------- *)

MaxSubs == 2

MaxTimers == 1

MaxNoopClicks == 2

Points == {[x |-> 0, y |-> 0], [x |-> 3, y |-> 0], [x |-> 3, y |-> 3]}

(* ------------------------------ the page ------------------------------ *)

NoEl == "null"

Elements == {"body", "E1", "E1c", "frameIn", "E2", "out", "tb", "tbc", "tbFrame", "menu", "frameOut"}

PointerTargets == {"E1c", "E2", "tbc", "menu"}

ActiveElements == {"body", "frameIn", "frameOut", "tbFrame"}

TargetValues == {NoEl, "E1", "E2"}

parentNode(n) ==
    CASE n = "body" -> NoEl
      [] n = "E1c" -> "E1"
      [] n = "frameIn" -> "E1"
      [] n = "tbc" -> "tb"
      [] n = "tbFrame" -> "tb"
      [] OTHER -> "body"

tagName(n) == IF n \in {"frameIn", "frameOut", "tbFrame"} THEN "IFRAME" ELSE "DIV"

RECURSIVE composedPath(_)
composedPath(n) == IF n = NoEl THEN <<>> ELSE <<n>> \o composedPath(parentNode(n))

includes(seq, x) == \E i \in 1..Len(seq) : seq[i] = x

contains(el, n) == el # NoEl /\ includes(composedPath(n), el)

querySelectorAll(sel) == IF sel = ".toolbar" THEN {"tb"} ELSE {}

Abs(n) == IF n < 0 THEN -n ELSE n

(* ------------------------------ options ------------------------------- *)

IgnoreLists ==
    { <<>>,
      << [type |-> "ref", value |-> NoEl], [type |-> "string", value |-> ".toolbar"],
         [type |-> "ref", value |-> "menu"] >> }

DefaultDistance == 4

IgnoreDraggingValues ==
    { [on |-> FALSE, hasDistance |-> FALSE, distance |-> 0],
      [on |-> TRUE, hasDistance |-> FALSE, distance |-> 0],
      [on |-> TRUE, hasDistance |-> TRUE, distance |-> 2],
      [on |-> TRUE, hasDistance |-> TRUE, distance |-> 7] }

\* the options the detector is installed with: every pair of option values occurs
Options ==
    [ignore : IgnoreLists, ignoreDragging : {[on |-> FALSE, hasDistance |-> FALSE, distance |-> 0]},
     detectIframe : BOOLEAN]
    \cup [ignore : {<<>>}, ignoreDragging : {[on |-> TRUE, hasDistance |-> FALSE, distance |-> 0]},
          detectIframe : {TRUE}]
    \cup [ignore : IgnoreLists \ {<<>>}, ignoreDragging : IgnoreDraggingValues,
          detectIframe : {FALSE}]

configuredDistance ==
    IF ignoreDragging.hasDistance THEN ignoreDragging.distance ELSE DefaultDistance

(* --------------------------- the detector ----------------------------- *)

unrefElement == targetEl

shouldIgnore(event) ==
    \E i \in 1..Len(ignore) :
        IF ignore[i].type = "string"
        THEN \E el \in querySelectorAll(ignore[i].value) :
                 el = event.target \/ includes(composedPath(event.target), el)
        ELSE LET el == ignore[i].value
             IN  el # NoEl /\ (event.target = el \/ includes(composedPath(event.target), el))

removeSub(subs, id) == SelectSeq(subs, LAMBDA s : s.id # id)

subIds(subs) == {subs[i].id : i \in 1..Len(subs)}

freshId(subs) == CHOOSE i \in 1..(Len(subs) + 1) :
                     i \notin subIds(subs) /\ \A j \in 1..(i - 1) : j \in subIds(subs)

\* the pointermove callback of the subscription made at (x, y), run on event e
\* in the state st = [sl |-> shouldListen, subs |-> moveSubs]
dragListener(x, y, e, st) ==
    LET dX == Abs(x - e.x)
        dY == Abs(y - e.y)
    IN  IF dX + dY > 4
        THEN [sl |-> FALSE, subs |-> removeSub(st.subs, stopDragListener)]
        ELSE st

\* the window runs the pointermove subscriptions that were installed when the
\* event was dispatched, in registration order, skipping those removed meanwhile
RECURSIVE dispatchMove(_, _, _, _)
dispatchMove(snapshot, i, e, st) ==
    IF i > Len(snapshot) THEN st
    ELSE IF snapshot[i].id \notin subIds(st.subs)
         THEN dispatchMove(snapshot, i + 1, e, st)
         ELSE dispatchMove(snapshot, i + 1, e,
                           dragListener(snapshot[i].x, snapshot[i].y, e, st))

startDragListener(e) ==
    LET id == freshId(moveSubs)
    IN  /\ moveSubs' = Append(moveSubs, [id |-> id, x |-> e.x, y |-> e.y])
        /\ stopDragListener' = id

\* pointerdown listener that does not look for the element in the composed path
pointerdownListenerAnywhere(e) ==
    LET el == unrefElement
        sl == ~shouldIgnore(e) /\ el # NoEl
    IN  /\ shouldListen' = sl
        /\ IF sl /\ ignoreDragging.on
           THEN startDragListener(e)
           ELSE UNCHANGED <<moveSubs, stopDragListener>>
        /\ handlerCalls' = <<>>

pointerdownListener(e) ==
    LET el == unrefElement
        sl == ~shouldIgnore(e) /\ (el # NoEl /\ ~includes(composedPath(e.target), el))
    IN  /\ shouldListen' = sl
        /\ IF sl /\ ignoreDragging.on
           THEN startDragListener(e)
           ELSE UNCHANGED <<moveSubs, stopDragListener>>
        /\ handlerCalls' = <<>>

\* listener without the detail === 0 recomputation of shouldListen
listenerNoSynthetic(event) ==
    LET el == unrefElement
        sl == shouldListen
    IN  /\ moveSubs' = removeSub(moveSubs, stopDragListener)
        /\ UNCHANGED stopDragListener
        /\ IF el = NoEl \/ el = event.target \/ includes(composedPath(event.target), el)
           THEN /\ UNCHANGED shouldListen
                /\ handlerCalls' = <<>>
           ELSE IF ~sl
                THEN /\ shouldListen' = TRUE
                     /\ handlerCalls' = <<>>
                ELSE /\ shouldListen' = sl
                     /\ handlerCalls' = <<"click">>

\* listener that compares the element with event.target only, not with the composed path
listenerTargetOnly(event) ==
    LET el == unrefElement
        sl == IF event.detail = 0 THEN ~shouldIgnore(event) ELSE shouldListen
    IN  /\ moveSubs' = removeSub(moveSubs, stopDragListener)
        /\ UNCHANGED stopDragListener
        /\ IF el = NoEl \/ el = event.target
           THEN /\ UNCHANGED shouldListen
                /\ handlerCalls' = <<>>
           ELSE IF ~sl
                THEN /\ shouldListen' = TRUE
                     /\ handlerCalls' = <<>>
                ELSE /\ shouldListen' = sl
                     /\ handlerCalls' = <<"click">>

\* listener that narrows shouldListen on detail === 0 instead of recomputing it
listenerSyntheticNarrows(event) ==
    LET el == unrefElement
        sl == IF event.detail = 0 THEN shouldListen /\ ~shouldIgnore(event) ELSE shouldListen
    IN  /\ moveSubs' = removeSub(moveSubs, stopDragListener)
        /\ UNCHANGED stopDragListener
        /\ IF el = NoEl \/ el = event.target \/ includes(composedPath(event.target), el)
           THEN /\ UNCHANGED shouldListen
                /\ handlerCalls' = <<>>
           ELSE IF ~sl
                THEN /\ shouldListen' = TRUE
                     /\ handlerCalls' = <<>>
                ELSE /\ shouldListen' = sl
                     /\ handlerCalls' = <<"click">>

\* listener that keeps using the element the pointerdown resolved
listenerStaleElement(event) ==
    LET el == IF gesture.el # NoEl THEN gesture.el ELSE unrefElement
        sl == IF event.detail = 0 THEN ~shouldIgnore(event) ELSE shouldListen
    IN  /\ moveSubs' = removeSub(moveSubs, stopDragListener)
        /\ UNCHANGED stopDragListener
        /\ IF el = NoEl \/ el = event.target \/ includes(composedPath(event.target), el)
           THEN /\ UNCHANGED shouldListen
                /\ handlerCalls' = <<>>
           ELSE IF ~sl
                THEN /\ shouldListen' = TRUE
                     /\ handlerCalls' = <<>>
                ELSE /\ shouldListen' = sl
                     /\ handlerCalls' = <<"click">>

listener(event) ==
    LET el == unrefElement
        sl == IF event.detail = 0 THEN ~shouldIgnore(event) ELSE shouldListen
    IN  /\ moveSubs' = removeSub(moveSubs, stopDragListener)
        /\ UNCHANGED stopDragListener
        /\ IF el = NoEl \/ el = event.target \/ includes(composedPath(event.target), el)
           THEN /\ UNCHANGED shouldListen
                /\ handlerCalls' = <<>>
           ELSE IF ~sl
                THEN /\ shouldListen' = TRUE
                     /\ handlerCalls' = <<>>
                ELSE /\ shouldListen' = sl
                     /\ handlerCalls' = <<"click">>

\* blur listener that runs the check at once instead of deferring it
blurListenerSync ==
    /\ UNCHANGED timers
    /\ handlerCalls' =
           IF tagName(activeElement) = "IFRAME" /\ ~contains(unrefElement, activeElement)
           THEN <<"blur">>
           ELSE <<>>

blurListener ==
    /\ timers' = timers + 1
    /\ handlerCalls' = <<>>

deferredBlurCheck ==
    LET el == unrefElement
    IN  handlerCalls' =
            IF tagName(activeElement) = "IFRAME" /\ ~contains(el, activeElement)
            THEN <<"blur">>
            ELSE <<>>

\* the subscriptions made at install: click, pointerdown and, with detectIframe, blur
cleanup == {"click", "pointerdown"} \cup (IF detectIframe THEN {"blur"} ELSE {})

\* stop that forgets the click subscription
stopKeepsClick ==
    /\ listeners' = listeners \ (cleanup \ {"click"})
    /\ UNCHANGED otherListeners

\* stop that removes the window's listeners by event type, whoever subscribed them
stopRemovesByType ==
    /\ listeners' = listeners \ cleanup
    /\ otherListeners' = otherListeners \ cleanup

\* the returned function: noop without a window, else every entry of cleanup is
\* called and removes the one subscription it was returned for
stop ==
    IF ~hasWindow
    THEN UNCHANGED <<listeners, otherListeners>>
    ELSE /\ listeners' = listeners \ cleanup
         /\ UNCHANGED otherListeners

(* ------------------------- the second instance ------------------------ *)

\* the second call is made with a window, a plain element as target and no options
OtherTarget == "E2"

NotInstalled ==
    [installed |-> FALSE, stopCalled |-> FALSE, shouldListen |-> TRUE, calls |-> <<>>,
     pre |-> FALSE, at |-> NoEl]

\* shouldListen as the closure o would read it if it were declared at module level
moduleShouldListen(o) == shouldListen

\* let shouldListen is declared inside onClickOutside: each call has its own
closureShouldListen(o) == o.shouldListen

\* the pointerdown listener of the second instance (ignore = [], ignoreDragging = false)
otherPointerdownListener(o, e) ==
    LET el == OtherTarget
        sl == el # NoEl /\ ~includes(composedPath(e.target), el)
    IN  [o EXCEPT !.shouldListen = sl, !.calls = <<>>]

\* listener of the second instance (ignore = [], stopDragListener undefined)
otherListener(o, event) ==
    LET el == OtherTarget
        sl == IF event.detail = 0 THEN TRUE ELSE closureShouldListen(o)
    IN  IF el = NoEl \/ el = event.target \/ includes(composedPath(event.target), el)
        THEN [o EXCEPT !.calls = <<>>]
        ELSE IF ~sl
             THEN [o EXCEPT !.shouldListen = TRUE, !.calls = <<>>]
             ELSE [o EXCEPT !.shouldListen = sl, !.calls = <<"click">>]

\* the second instance during a step that runs none of its listeners
otherIdle == IF other.installed THEN [other EXCEPT !.calls = <<>>] ELSE other

\* a click dispatched on the window reaches the second instance too
otherOnClick(e) ==
    IF ~other.installed THEN other
    ELSE [(IF "click" \in otherListeners THEN otherListener(other, e) ELSE otherIdle)
             EXCEPT !.pre = other.shouldListen, !.at = NoEl]

otherOnPointerdown(e) ==
    IF ~other.installed THEN other
    ELSE [(IF "pointerdown" \in otherListeners
           THEN otherPointerdownListener(other, e)
           ELSE otherIdle)
             EXCEPT !.at = e.target]

\* the platform workaround of a call made with (w) or without a window
iOSWorkaroundBeforeWindowCheck(w) ==
    IF isIOS /\ ~iOSWorkaround
    THEN /\ iOSWorkaround' = TRUE
         /\ noopClicks' = noopClicks + 1
    ELSE UNCHANGED <<iOSWorkaround, noopClicks>>

iOSWorkaroundOnEveryCall(w) ==
    IF w /\ isIOS
    THEN /\ iOSWorkaround' = TRUE
         /\ noopClicks' = noopClicks + 1
    ELSE UNCHANGED <<iOSWorkaround, noopClicks>>

applyIOSWorkaround(w) ==
    IF w /\ isIOS /\ ~iOSWorkaround
    THEN /\ iOSWorkaround' = TRUE
         /\ noopClicks' = noopClicks + 1
    ELSE UNCHANGED <<iOSWorkaround, noopClicks>>

(* ------------------------------ events -------------------------------- *)

ClickEvents == [target : PointerTargets, detail : {0, 1}]

PointerdownEvents == {[target |-> t, detail |-> 1, x |-> p.x, y |-> p.y] : t \in PointerTargets, p \in Points}

NoGesture == [down |-> FALSE, ok |-> FALSE, el |-> NoEl, x |-> 0, y |-> 0, over |-> FALSE]

\* an event other than a click was processed
Last(kind) ==
    [kind |-> kind, target |-> NoEl, detail |-> 0, pre |-> FALSE, down |-> FALSE,
     downOk |-> FALSE, downEl |-> NoEl, over |-> FALSE]

\* a click was processed: the event, shouldListen as the click found it, and
\* the gesture that led to it
LastClick(e) ==
    [kind |-> "click", target |-> e.target, detail |-> e.detail, pre |-> shouldListen,
     down |-> gesture.down, downOk |-> gesture.down /\ gesture.ok, downEl |-> gesture.el,
     over |-> gesture.down /\ gesture.ok /\ gesture.over]

Init ==
    /\ \E o \in Options :
           /\ ignore = o.ignore
           /\ ignoreDragging = o.ignoreDragging
           /\ detectIframe = o.detectIframe
    /\ targetEl \in TargetValues
    /\ activeElement = "body"
    /\ shouldListen = TRUE
    /\ stopDragListener = 0
    /\ listeners = cleanup
    /\ moveSubs = <<>>
    /\ timers = 0
    /\ handlerCalls = <<>>
    /\ stopCalled = FALSE
    /\ last = Last("install")
    /\ gesture = NoGesture
    /\ hasWindow = TRUE
    /\ isIOS = FALSE
    /\ iOSWorkaround = FALSE
    /\ noopClicks = 0
    /\ installed = TRUE
    /\ other = NotInstalled
    /\ otherListeners = {}

Click ==
    \E e \in ClickEvents :
        /\ IF "click" \in listeners
           THEN listener(e)
           ELSE /\ UNCHANGED <<shouldListen, stopDragListener, moveSubs>>
                /\ handlerCalls' = <<>>
        /\ last' = LastClick(e)
        /\ gesture' = NoGesture
        /\ other' = otherOnClick(e)
        /\ UNCHANGED <<ignore, ignoreDragging, detectIframe, targetEl, activeElement,
                       listeners, timers, stopCalled, process, otherListeners>>

Pointerdown ==
    \E e \in PointerdownEvents :
        /\ \/ Len(moveSubs) < MaxSubs
           \/ "pointerdown" \notin listeners
           \/ ~ignoreDragging.on
           \/ shouldIgnore(e)
           \/ targetEl = NoEl
           \/ contains(targetEl, e.target)
        /\ IF "pointerdown" \in listeners
           THEN pointerdownListener(e)
           ELSE /\ UNCHANGED <<shouldListen, stopDragListener, moveSubs>>
                /\ handlerCalls' = <<>>
        /\ last' = Last("pointerdown")
        /\ gesture' = IF /\ "pointerdown" \in listeners
                          /\ targetEl # NoEl
                          /\ ~contains(targetEl, e.target)
                          /\ ~shouldIgnore(e)
                       THEN [down |-> TRUE, ok |-> TRUE, el |-> targetEl, x |-> e.x, y |-> e.y,
                             over |-> FALSE]
                       ELSE [NoGesture EXCEPT !.down = TRUE]
        /\ other' = otherOnPointerdown(e)
        /\ UNCHANGED <<ignore, ignoreDragging, detectIframe, targetEl, activeElement,
                       listeners, timers, stopCalled, process, otherListeners>>

Pointermove ==
    \E e \in Points :
        LET st == dispatchMove(moveSubs, 1, e, [sl |-> shouldListen, subs |-> moveSubs])
        IN  /\ shouldListen' = st.sl
            /\ moveSubs' = st.subs
            /\ handlerCalls' = <<>>
            /\ last' = Last("pointermove")
            /\ gesture' = IF gesture.down
                             /\ Abs(gesture.x - e.x) + Abs(gesture.y - e.y) > configuredDistance
                          THEN [gesture EXCEPT !.over = TRUE]
                          ELSE gesture
            /\ other' = otherIdle
            /\ UNCHANGED <<ignore, ignoreDragging, detectIframe, targetEl, activeElement,
                           stopDragListener, listeners, timers, stopCalled, process,
                           otherListeners>>

Blur ==
    /\ timers < MaxTimers
    /\ IF "blur" \in listeners
       THEN blurListener
       ELSE /\ UNCHANGED timers
            /\ handlerCalls' = <<>>
    /\ last' = Last("blur")
    /\ other' = otherIdle
    /\ UNCHANGED <<ignore, ignoreDragging, detectIframe, targetEl, activeElement,
                   shouldListen, stopDragListener, listeners, moveSubs, stopCalled, gesture,
                   process, otherListeners>>

Timeout ==
    /\ timers > 0
    /\ timers' = timers - 1
    /\ deferredBlurCheck
    /\ last' = Last("timeout")
    /\ other' = otherIdle
    /\ UNCHANGED <<ignore, ignoreDragging, detectIframe, targetEl, activeElement,
                   shouldListen, stopDragListener, listeners, moveSubs, stopCalled, gesture,
                   process, otherListeners>>

Stop ==
    /\ stop
    /\ stopCalled' = TRUE
    /\ handlerCalls' = <<>>
    /\ last' = [Last("stop") EXCEPT !.pre = stopCalled]
    /\ other' = otherIdle
    /\ UNCHANGED <<ignore, ignoreDragging, detectIframe, targetEl, activeElement,
                   shouldListen, stopDragListener, moveSubs, timers, gesture, process>>

\* the target reference is reactive: the element it resolves to changes between events
Retarget ==
    \E v \in TargetValues :
        /\ v # targetEl
        /\ targetEl' = v
        /\ handlerCalls' = <<>>
        /\ last' = Last("retarget")
        /\ other' = otherIdle
        /\ UNCHANGED <<ignore, ignoreDragging, detectIframe, activeElement, shouldListen,
                       stopDragListener, listeners, moveSubs, timers, stopCalled, gesture,
                       process, otherListeners>>

\* focus moves to another element of the document
Focus ==
    \E a \in ActiveElements :
        /\ a # activeElement
        /\ activeElement' = a
        /\ handlerCalls' = <<>>
        /\ last' = Last("focus")
        /\ other' = otherIdle
        /\ UNCHANGED <<ignore, ignoreDragging, detectIframe, targetEl, shouldListen,
                       stopDragListener, listeners, moveSubs, timers, stopCalled, gesture,
                       process, otherListeners>>

Next ==
    \/ Click
    \/ Pointerdown
    \/ Pointermove
    \/ Blur
    \/ Timeout
    \/ Stop
    \/ Retarget
    \/ Focus

Spec == Init /\ [][Next]_vars

(* ----------------------------- the process ---------------------------- *)

\* the options of the calls made in SpecProcess
ProcessOptions ==
    [ignore : {<<>>}, ignoreDragging : {[on |-> TRUE, hasDistance |-> FALSE, distance |-> 0]},
     detectIframe : {FALSE}]

\* the process has started and onClickOutside has not been called yet
InitProcess ==
    /\ \E o \in ProcessOptions :
           /\ ignore = o.ignore
           /\ ignoreDragging = o.ignoreDragging
           /\ detectIframe = o.detectIframe
    /\ targetEl \in TargetValues
    /\ activeElement = "body"
    /\ shouldListen = TRUE
    /\ stopDragListener = 0
    /\ listeners = {}
    /\ moveSubs = <<>>
    /\ timers = 0
    /\ handlerCalls = <<>>
    /\ stopCalled = FALSE
    /\ last = Last("start")
    /\ gesture = NoGesture
    /\ hasWindow \in BOOLEAN
    /\ isIOS \in BOOLEAN
    /\ iOSWorkaround = FALSE
    /\ noopClicks = 0
    /\ installed = FALSE
    /\ other = NotInstalled
    /\ otherListeners = {}

\* onClickOutside(target, handler, options) is called for the first instance
Install ==
    /\ ~installed
    /\ noopClicks < MaxNoopClicks
    /\ installed' = TRUE
    /\ applyIOSWorkaround(hasWindow)
    /\ shouldListen' = TRUE
    /\ stopDragListener' = 0
    /\ listeners' = IF hasWindow THEN cleanup ELSE {}
    /\ handlerCalls' = <<>>
    /\ last' = Last("install")
    /\ other' = otherIdle
    /\ UNCHANGED <<ignore, ignoreDragging, detectIframe, targetEl, activeElement, moveSubs,
                   timers, stopCalled, gesture, hasWindow, isIOS, otherListeners>>

\* onClickOutside is called again, with a window: a second instance, or a new
\* one in place of a second instance that was stopped
InstallOther ==
    /\ ~other.installed \/ other.stopCalled
    /\ noopClicks < MaxNoopClicks
    /\ applyIOSWorkaround(TRUE)
    /\ other' = [NotInstalled EXCEPT !.installed = TRUE]
    /\ otherListeners' = {"click", "pointerdown"}
    /\ handlerCalls' = <<>>
    /\ last' = Last("installOther")
    /\ UNCHANGED <<ignore, ignoreDragging, detectIframe, targetEl, activeElement,
                   shouldListen, stopDragListener, listeners, moveSubs, timers, stopCalled,
                   gesture, hasWindow, isIOS, installed>>

\* the stop function of the second instance is called
StopOther ==
    /\ other.installed
    /\ otherListeners' = {}
    /\ other' = [other EXCEPT !.stopCalled = TRUE, !.calls = <<>>]
    /\ handlerCalls' = <<>>
    /\ last' = Last("stopOther")
    /\ UNCHANGED <<ignore, ignoreDragging, detectIframe, targetEl, activeElement,
                   shouldListen, stopDragListener, listeners, moveSubs, timers, stopCalled,
                   gesture, process>>

\* the stop function of the first instance exists once onClickOutside has returned it
StopInstalled == installed /\ Stop

NextProcess ==
    \/ Install
    \/ InstallOther
    \/ StopInstalled
    \/ StopOther
    \/ Click
    \/ Pointerdown
    \/ Pointermove
    \/ Retarget

SpecProcess == InitProcess /\ [][NextProcess]_vars

(* ------------------------------ claims -------------------------------- *)

ClickProcessed == last.kind = "click"

ClickDelivered == ClickProcessed /\ "click" \in listeners

\* the click just processed landed on the watched element or on a descendant of it
ClickInside ==
    /\ ClickProcessed
    /\ targetEl # NoEl
    /\ (last.target = targetEl \/ includes(composedPath(last.target), targetEl))

\* the click just processed landed outside the element the target resolves to
ClickOutside ==
    /\ ClickProcessed
    /\ targetEl # NoEl
    /\ last.target # targetEl
    /\ ~includes(composedPath(last.target), targetEl)

ClickIgnored == ClickProcessed /\ shouldIgnore(last)

\* C1 (as stated): every click delivered to the installed detector that is
\* outside the resolved element and matches no ignore entry invokes the handler
\* exactly once, whatever events came before it.
C1_AnyOutsideClickInvokes ==
    (ClickDelivered /\ ClickOutside /\ ~ClickIgnored) => Len(handlerCalls) = 1

\* C1 (amended): such a click invokes the handler exactly once when its detail
\* is 0 or shouldListen is true as the click arrives, and not at all otherwise.
C1_OutsideClickInvokesWhenListening ==
    (ClickDelivered /\ ClickOutside /\ ~ClickIgnored)
        => IF last.detail = 0 \/ last.pre
           THEN handlerCalls = <<"click">>
           ELSE handlerCalls = <<>>

C1_Witness ==
    /\ ClickDelivered /\ ClickOutside /\ ~ClickIgnored
    /\ last.detail = 1 /\ last.pre /\ last.downOk
    /\ handlerCalls = <<"click">>

\* C2: a click whose target is the watched element or whose composed path
\* includes it never invokes the handler, whatever shouldListen and detail are.
C2_InsideClickNeverInvokes == ClickInside => handlerCalls = <<>>

C2_Witness ==
    /\ ClickDelivered /\ ClickInside
    /\ last.target # targetEl
    /\ last.pre
    /\ handlerCalls = <<>>

\* C3: once stop has been called, no click outside the watched element invokes
\* the handler.
C3_NoClickHandlingAfterStop == (stopCalled /\ ClickOutside) => handlerCalls = <<>>

C3_Witness ==
    /\ stopCalled /\ ClickOutside /\ ~ClickIgnored
    /\ last.pre
    /\ handlerCalls = <<>>

\* C4: after stop, no subscription of the detector remains installed: click,
\* pointerdown, blur and pointermove are all removed.
C4_StopRemovesEveryListener == stopCalled => (listeners = {} /\ moveSubs = <<>>)

\* C5: with ignoreDragging enabled, a pointerdown outside the element, then a
\* pointermove farther than the configured distance from its origin, then a
\* (pointer-originated, detail # 0) click outside the element does not invoke
\* the handler, for every configured distance.
C5_DragBeyondConfiguredDistanceSuppressed ==
    (ClickDelivered /\ ClickOutside /\ ignoreDragging.on /\ last.over /\ last.detail # 0)
        => handlerCalls = <<>>

\* C6: with ignoreDragging enabled, when the most recent pointerdown was
\* outside and not ignored and every pointermove since stayed within the
\* configured distance of its origin, the following click outside the element
\* (matching no ignore entry) invokes the handler.
C6_ClickWithinConfiguredDistanceInvokes ==
    (/\ ClickDelivered /\ ClickOutside /\ ~ClickIgnored
     /\ ignoreDragging.on /\ last.downOk /\ ~last.over)
        => handlerCalls = <<"click">>

\* C7: a click whose target or composed path matches an ignore entry never
\* invokes the handler, whatever events came before it.
C7_IgnoredClickNeverInvokes == ClickIgnored => handlerCalls = <<>>

\* the elements inside el, el included
Descendants(el) == {n \in Elements : n = el \/ (n # el /\ includes(composedPath(n), el))}

\* C8: the handler is invoked with the blur event only by the deferred check,
\* never inside the blur listener, and exactly when the active element is then
\* an IFRAME that is not inside the element the target then resolves to.
C8_BlurHandledOnlyByDeferredCheck ==
    /\ last.kind = "blur" => handlerCalls = <<>>
    /\ includes(handlerCalls, "blur") => (last.kind = "timeout" /\ detectIframe)
    /\ last.kind = "timeout" =>
           IF activeElement \in {"frameIn", "frameOut", "tbFrame"}
              /\ activeElement \notin Descendants(targetEl)
           THEN handlerCalls = <<"blur">>
           ELSE handlerCalls = <<>>

C8_Witness ==
    /\ last.kind = "timeout"
    /\ targetEl = "E2"
    /\ activeElement = "frameIn"
    /\ handlerCalls = <<"blur">>

\* C9: at most one pointermove subscription of the detector is installed.
C9_AtMostOneMoveSubscription == Len(moveSubs) <= 1

\* C10: an event processed while the target resolves to nothing does not invoke
\* the handler: click, pointerdown and the deferred blur check alike.
C10_UnresolvedTargetNeverInvokes ==
    (targetEl = NoEl /\ last.kind \in {"click", "pointerdown", "timeout"})
        => handlerCalls = <<>>

\* C13: a click outside the element with detail 0 invokes the handler exactly
\* when it matches no ignore entry, whatever shouldListen was before it.
C13_SyntheticClickDecidedByIgnore ==
    (ClickDelivered /\ ClickOutside /\ last.detail = 0)
        => IF ClickIgnored THEN handlerCalls = <<>> ELSE handlerCalls = <<"click">>

C13_Witness ==
    /\ ClickDelivered /\ ClickOutside /\ ~ClickIgnored
    /\ last.detail = 0
    /\ ~last.pre
    /\ handlerCalls = <<"click">>

\* the click just processed followed a pointerdown that resolved another element
ClickAfterRetarget == ClickDelivered /\ last.downEl # NoEl /\ last.downEl # targetEl

\* C14: the element is resolved anew by every event: a click inside the element
\* the target resolves to now never invokes the handler, and a click inside
\* only the element it resolved to at the pointerdown is handled as any
\* outside click is.
C14_ElementResolvedPerEvent ==
    /\ (ClickAfterRetarget /\ ClickInside) => handlerCalls = <<>>
    /\ (ClickAfterRetarget /\ ClickOutside /\ ~ClickIgnored
            /\ contains(last.downEl, last.target))
           => IF last.detail = 0 \/ last.pre
              THEN handlerCalls = <<"click">>
              ELSE handlerCalls = <<>>

C14_Witness ==
    /\ ClickAfterRetarget /\ ClickOutside /\ ~ClickIgnored
    /\ contains(last.downEl, last.target)
    /\ last.detail = 1
    /\ handlerCalls = <<"click">>

\* C16: once stop has been called the handler is never invoked again, a
\* deferred blur check scheduled before the stop included (stated for a
\* resolved target).
C16_NoHandlerCallAfterStop == (stopCalled /\ targetEl # NoEl) => handlerCalls = <<>>

\* C17: a pointerdown inside the element, on an ignored element or with the
\* target unresolved sets shouldListen to false, and the next click with
\* detail # 0 outside the element is then suppressed.
C17_BadPointerdownSuppressesNextClick ==
    /\ (last.kind = "pointerdown" /\ "pointerdown" \in listeners /\ ~gesture.ok)
           => ~shouldListen
    /\ (ClickDelivered /\ ClickOutside /\ ~ClickIgnored
            /\ last.detail # 0 /\ last.down /\ ~last.downOk)
           => (handlerCalls = <<>> /\ ~last.pre)

C17_Witness ==
    /\ ClickDelivered /\ ClickOutside /\ ~ClickIgnored
    /\ last.detail # 0 /\ last.down /\ ~last.downOk
    /\ handlerCalls = <<>>

\* C18: nothing done on an ignore-list element invokes the handler; with
\* detectIframe, focus moving into an iframe inside an ignore entry and outside
\* the watched element does not either.
C18_IgnoredIframeNeverInvokes ==
    (/\ last.kind = "timeout"
     /\ targetEl # NoEl
     /\ ~contains(targetEl, activeElement)
     /\ shouldIgnore([target |-> activeElement]))
        => handlerCalls = <<>>

\* C19: a click suppressed because shouldListen was false leaves shouldListen
\* true, and a later gesture made of a pointerdown outside the element (not
\* ignored), no move beyond the default distance from its origin and a click
\* outside the element invokes the handler, however earlier gestures ended.
C19_SuppressionLastsOneGesture ==
    /\ (ClickDelivered /\ ClickOutside /\ handlerCalls = <<>>) => shouldListen
    /\ (/\ ClickDelivered /\ ClickOutside /\ ~ClickIgnored
        /\ ~ignoreDragging.hasDistance /\ last.downOk /\ ~last.over)
           => handlerCalls = <<"click">>

\* C11: a call without a window installs no listener, leaves the iOS
\* workaround and its flag alone and returns a noop: no later event invokes
\* the handler and calling stop changes nothing.
C11_NoWindowInstallsNothing ==
    (installed /\ ~hasWindow) =>
        /\ listeners = {} /\ moveSubs = <<>> /\ timers = 0
        /\ stopDragListener = 0
        /\ handlerCalls = <<>>
        /\ ~other.installed => (~iOSWorkaround /\ noopClicks = 0)

C11_Witness ==
    /\ installed /\ ~hasWindow /\ isIOS /\ ~other.installed
    /\ stopCalled
    /\ ClickProcessed /\ ClickOutside /\ last.detail = 1
    /\ handlerCalls = <<>>

\* C12: over all calls and stops of a process the workaround is applied at most
\* once, only on iOS and by the first call that has a window; its flag is then
\* true for good and no stop takes the noop listeners away.
C12_WorkaroundAppliedOnce ==
    /\ noopClicks <= 1
    /\ iOSWorkaround <=> (noopClicks = 1)
    /\ iOSWorkaround <=> (isIOS /\ ((installed /\ hasWindow) \/ other.installed))

C12_Witness ==
    /\ isIOS /\ installed /\ hasWindow /\ stopCalled
    /\ last.kind = "installOther"
    /\ iOSWorkaround /\ noopClicks = 1

TypeOK ==
    /\ shouldListen \in BOOLEAN
    /\ Len(moveSubs) <= MaxSubs
    /\ timers \in 0..MaxTimers

=============================================================================
